---- MODULE Spec2Model ----
(***************************************************************************)
(* The gotemplate_file data source of terraform-gotemplate                 *)
(* (src/pkg/go_datasource_file.go): the read callback dataSourceFileRead,  *)
(* the renderer renderGoTemplate with the library calls it makes           *)
(* (pathorcontents.Read, text/template of Go 1.7.4, ioutil.ReadDir), the   *)
(* helper table templateFuncs and the content hash.                        *)
(*                                                                         *)
(* Text is a sequence of one-character strings, so that lexing, parsing,   *)
(* execution and hashing work on the characters themselves.                *)
(***************************************************************************)
EXTENDS Integers, Sequences, FiniteSets, TLC

(***************************************************************************)
(* Characters and bytes.                                                   *)
(***************************************************************************)

\* The printable ASCII characters, in code order from 32 (space) to 126; the
\* grave accent (96), which no template below uses, stands under its name.
Ascii ==
  <<" ", "!", "\"", "#", "$", "%", "&", "'", "(", ")", "*", "+", ",", "-", ".", "/",
    "0", "1", "2", "3", "4", "5", "6", "7", "8", "9", ":", ";", "<", "=", ">", "?",
    "@", "A", "B", "C", "D", "E", "F", "G", "H", "I", "J", "K", "L", "M", "N", "O",
    "P", "Q", "R", "S", "T", "U", "V", "W", "X", "Y", "Z", "[", "\\", "]", "^", "_",
    "grave", "a", "b", "c", "d", "e", "f", "g", "h", "i", "j", "k", "l", "m", "n", "o",
    "p", "q", "r", "s", "t", "u", "v", "w", "x", "y", "z", "{", "|", "}", "~">>

\* The byte of a character: []byte(s) of hash, for the characters of Ascii.
Ord(c) == 31 + (CHOOSE i \in 1..Len(Ascii) : Ascii[i] = c)

Bytes(s) == [i \in 1..Len(s) |-> Ord(s[i])]

Min(S) == CHOOSE x \in S : \A y \in S : x <= y

(***************************************************************************)
(* crypto/sha256 (FIPS 180-4).  A 32-bit word is <<high 16 bits, low 16    *)
(* bits>>, which keeps every intermediate value within the integers of the *)
(* model checker; the operations are those of the standard on such words.  *)
(***************************************************************************)

Nibble == 0..15

NibbleAnd ==
  [x \in Nibble |-> [y \in Nibble |->
      ((x % 2) * (y % 2))
    + 2 * (((x \div 2) % 2) * ((y \div 2) % 2))
    + 4 * (((x \div 4) % 2) * ((y \div 4) % 2))
    + 8 * ((x \div 8) * (y \div 8))]]

And16(x, y) ==
    NibbleAnd[x % 16][y % 16]
  + 16 * NibbleAnd[(x \div 16) % 16][(y \div 16) % 16]
  + 256 * NibbleAnd[(x \div 256) % 16][(y \div 256) % 16]
  + 4096 * NibbleAnd[x \div 4096][y \div 4096]

Xor16(x, y) == x + y - 2 * And16(x, y)

WAnd(a, b) == <<And16(a[1], b[1]), And16(a[2], b[2])>>

WXor(a, b) == <<Xor16(a[1], b[1]), Xor16(a[2], b[2])>>

WNot(a) == <<65535 - a[1], 65535 - a[2]>>

\* Addition modulo 2^32.
WAdd(a, b) ==
  LET lo == a[2] + b[2]
  IN  <<(a[1] + b[1] + (lo \div 65536)) % 65536, lo % 65536>>

\* Rotation to the right by n < 16 bits.
RotR16(a, n) ==
  LET p == 2 ^ n
      q == 2 ^ (16 - n)
  IN  <<(a[1] \div p) + (a[2] % p) * q, (a[2] \div p) + (a[1] % p) * q>>

RotR(a, n) == IF n >= 16 THEN RotR16(<<a[2], a[1]>>, n - 16) ELSE RotR16(a, n)

\* Shift to the right by n < 16 bits.
ShR(a, n) ==
  LET p == 2 ^ n
      q == 2 ^ (16 - n)
  IN  <<a[1] \div p, (a[2] \div p) + (a[1] % p) * q>>

SHA256K ==
  <<
    <<17034, 12184>>, <<28983, 17553>>, <<46528, 64463>>, <<59829, 56229>>,
    <<14678, 49755>>, <<23025, 4593>>, <<37439, 33444>>, <<43804, 24277>>,
    <<55303, 43672>>, <<4739, 23297>>, <<9265, 34238>>, <<21772, 32195>>,
    <<29374, 23924>>, <<32990, 45566>>, <<39900, 1703>>, <<49563, 61812>>,
    <<58523, 27073>>, <<61374, 18310>>, <<4033, 40390>>, <<9228, 41420>>,
    <<11753, 11375>>, <<19060, 33962>>, <<23728, 43484>>, <<30457, 35034>>,
    <<38974, 20818>>, <<43057, 50797>>, <<45059, 10184>>, <<48985, 32711>>,
    <<50912, 3059>>, <<54695, 37191>>, <<1738, 25425>>, <<5161, 10599>>,
    <<10167, 2693>>, <<11803, 8504>>, <<19756, 28156>>, <<21304, 3347>>,
    <<25866, 29524>>, <<30314, 2747>>, <<33218, 51502>>, <<37490, 11397>>,
    <<41663, 59553>>, <<43034, 26187>>, <<49739, 35696>>, <<51052, 20899>>,
    <<53650, 59417>>, <<54937, 1572>>, <<62478, 13701>>, <<4202, 41072>>,
    <<6564, 49430>>, <<7735, 27656>>, <<10056, 30540>>, <<13488, 48309>>,
    <<14620, 3251>>, <<20184, 43594>>, <<23452, 51791>>, <<26670, 28659>>,
    <<29839, 33518>>, <<30885, 25455>>, <<33992, 30740>>, <<36039, 520>>,
    <<37054, 65530>>, <<42064, 27883>>, <<48889, 41975>>, <<50801, 30962>>
  >>

SHA256Init ==
  <<
    <<27145, 58983>>, <<47975, 44677>>, <<15470, 62322>>, <<42319, 62778>>,
    <<20750, 21119>>, <<39685, 26764>>, <<8067, 55723>>, <<23520, 52505>>
  >>

\* The message, the byte 0x80, zero bytes, and the bit length as a 64-bit
\* big-endian number, to a multiple of 64 bytes.
Padded(m) ==
  LET L == Len(m)
      N == (((L + 8) \div 64) + 1) * 64
      bits == 8 * L
  IN  [i \in 1..N |->
        IF i <= L THEN m[i]
        ELSE IF i = L + 1 THEN 128
        ELSE IF i = N THEN bits % 256
        ELSE IF i = N - 1 THEN (bits \div 256) % 256
        ELSE IF i = N - 2 THEN (bits \div 65536) % 256
        ELSE 0]

\* The sixteen big-endian words of block b of the padded message p.
BlockWords(p, b) ==
  [j \in 1..16 |->
     LET o == 64 * (b - 1) + 4 * (j - 1)
     IN  <<256 * p[o + 1] + p[o + 2], 256 * p[o + 3] + p[o + 4]>>]

SmallSigma0(x) == WXor(WXor(RotR(x, 7), RotR(x, 18)), ShR(x, 3))

SmallSigma1(x) == WXor(WXor(RotR(x, 17), RotR(x, 19)), ShR(x, 10))

BigSigma0(x) == WXor(WXor(RotR(x, 2), RotR(x, 13)), RotR(x, 22))

BigSigma1(x) == WXor(WXor(RotR(x, 6), RotR(x, 11)), RotR(x, 25))

Ch(x, y, z) == WXor(WAnd(x, y), WAnd(WNot(x), z))

Maj(x, y, z) == WXor(WXor(WAnd(x, y), WAnd(x, z)), WAnd(y, z))

\* The message schedule: the 16 words of the block extended to 64.
RECURSIVE Schedule(_)
Schedule(w) ==
  LET t == Len(w) + 1
  IN  IF t > 64 THEN w
      ELSE Schedule(Append(w,
             WAdd(WAdd(SmallSigma1(w[t - 2]), w[t - 7]),
                  WAdd(SmallSigma0(w[t - 15]), w[t - 16]))))

\* One round on the working variables s = <<a, b, c, d, e, f, g, h>>.
Round(s, k, wt) ==
  LET t1 == WAdd(WAdd(WAdd(s[8], BigSigma1(s[5])), Ch(s[5], s[6], s[7])), WAdd(k, wt))
      t2 == WAdd(BigSigma0(s[1]), Maj(s[1], s[2], s[3]))
  IN  <<WAdd(t1, t2), s[1], s[2], s[3], WAdd(s[4], t1), s[5], s[6], s[7]>>

\* The 64 rounds; ss holds the working variables after each round so far.
RECURSIVE Rounds(_, _)
Rounds(ss, w) ==
  LET t == Len(ss)
  IN  IF t > 64 THEN ss[t]
      ELSE Rounds(Append(ss, Round(ss[t], SHA256K[t], w[t])), w)

Compress(h, words) ==
  LET w == Schedule(words)
      s == Rounds(<<h>>, w)
  IN  [i \in 1..8 |-> WAdd(h[i], s[i])]

RECURSIVE Blocks(_, _, _)
Blocks(h, p, b) ==
  IF 64 * (b - 1) >= Len(p) THEN h
  ELSE Blocks(Compress(h, BlockWords(p, b)), p, b + 1)

\* sha256.Sum256: the digest as eight words.
Sum256(m) == Blocks(SHA256Init, Padded(m), 1)

HexDigit == <<"0", "1", "2", "3", "4", "5", "6", "7", "8", "9", "a", "b", "c", "d", "e", "f">>

Hex16(x) ==
  HexDigit[(x \div 4096) + 1] \o HexDigit[((x \div 256) % 16) + 1]
    \o HexDigit[((x \div 16) % 16) + 1] \o HexDigit[(x % 16) + 1]

HexWord(a) == Hex16(a[1]) \o Hex16(a[2])

\* hex.EncodeToString: 64 lower-case hexadecimal digits, as one string.
EncodeToString(h) ==
  HexWord(h[1]) \o HexWord(h[2]) \o HexWord(h[3]) \o HexWord(h[4])
    \o HexWord(h[5]) \o HexWord(h[6]) \o HexWord(h[7]) \o HexWord(h[8])

\* The digest of a text: sha256.Sum256([]byte(s)) in hexadecimal.
Digest(s) == EncodeToString(Sum256(Bytes(s)))

\* The texts the templates of this model render, and their digests,
\* computed once.
Texts ==
  { <<>>, <<"T", "h", "i", "s", " ", "i", "s", " ", "a", " ", "t", "e", "m", "p", "l", "a", "t", "e", "!">>, <<"H", "e", "l", "l", "o", " ", "r", "o", "h", "i", "t", "h">>, <<"H", "e", "l", "l", "o", " ", "<", "n", "o", " ", "v", "a", "l", "u", "e", ">">>,
    <<"H", "i", " ", "r", "o", "h", "i", "t", "h">>, <<"H", "i", " ", "<", "n", "o", " ", "v", "a", "l", "u", "e", ">">>, <<"R", "O", "H", "I", "T", "H", "!">>, <<"A">>, <<"A", " ">>, <<"A", "F", "O", "O">>,
    <<"X">>, <<"Y">> }

Digests == [s \in Texts |-> Digest(s)]

\* hash is responsible for calculating the hash of a string.
hash(s) == IF s \in Texts THEN Digests[s] ELSE Digest(s)

(***************************************************************************)
(* Errors.  A Go error value is modelled by the call that produced it and  *)
(* its message; NoError is nil.                                            *)
(***************************************************************************)

NoError == [op |-> "", msg |-> ""]

Error(op, msg) == [op |-> op, msg |-> msg]

(***************************************************************************)
(* The file system the data source reads: one template file in the home    *)
(* directory, one elsewhere, and one snippits directory whose entries are   *)
(* chosen per read among SnippitFiles.                                      *)
(***************************************************************************)

\* homedir.Dir(): "/root"
HomeDir == <<"/", "r", "o", "o", "t">>

\* "/hello.tmpl", holding "Hello {{ .name }}"
HelloFile == <<"/", "h", "e", "l", "l", "o", ".", "t", "m", "p", "l">>

HelloContent ==
  <<"H", "e", "l", "l", "o", " ", "{", "{", " ", ".", "n", "a", "m", "e", " ", "}", "}">>

\* "/root/hi.tmpl", holding "Hi {{ .name }}"
HiFile == <<"/", "r", "o", "o", "t", "/", "h", "i", ".", "t", "m", "p", "l">>

HiContent == <<"H", "i", " ", "{", "{", " ", ".", "n", "a", "m", "e", " ", "}", "}">>

\* "/snip", the directory of snippits
SnippitsDir == <<"/", "s", "n", "i", "p">>

\* The files a snippits directory may hold, in file name order:
\*   bad   {{ end }}
\*   bar   {{ define "foo" }}{{ end }}
\*   baz   {{ define "main" }}Y{{ end }}
\*   foo   FOO
\*   main  X
\*   qux   {{ define "foo" }} {{ end }}
SnippitFiles ==
  << [name |-> <<"b", "a", "d">>,
      content |-> <<"{", "{", " ", "e", "n", "d", " ", "}", "}">>],
     [name |-> <<"b", "a", "r">>,
      content |-> <<"{", "{", " ", "d", "e", "f", "i", "n", "e", " ", "\"", "f", "o", "o", "\"",
                    " ", "}", "}", "{", "{", " ", "e", "n", "d", " ", "}", "}">>],
     [name |-> <<"b", "a", "z">>,
      content |-> <<"{", "{", " ", "d", "e", "f", "i", "n", "e", " ", "\"", "m", "a", "i", "n",
                    "\"", " ", "}", "}", "Y", "{", "{", " ", "e", "n", "d", " ", "}", "}">>],
     [name |-> <<"f", "o", "o">>,
      content |-> <<"F", "O", "O">>],
     [name |-> <<"m", "a", "i", "n">>,
      content |-> <<"X">>],
     [name |-> <<"q", "u", "x">>,
      content |-> <<"{", "{", " ", "d", "e", "f", "i", "n", "e", " ", "\"", "f", "o", "o", "\"",
                    " ", "}", "}", " ", "{", "{", " ", "e", "n", "d", " ", "}", "}">>] >>

\* The most entries a snippits directory holds.
MaxEntries == 2

\* The directories: the sets of entries (indices of SnippitFiles).
Directories == {S \in SUBSET (1..Len(SnippitFiles)) : Cardinality(S) <= MaxEntries}

\* The elements of a set of numbers, in increasing order.
RECURSIVE Sorted(_)
Sorted(S) == IF S = {} THEN <<>> ELSE <<Min(S)>> \o Sorted(S \ {Min(S)})

\* strings.TrimRight(s, "/")
TrimRight(s) ==
  LET keep == {i \in 1..Len(s) : s[i] # "/"}
  IN  IF keep = {} THEN <<>> ELSE SubSeq(s, 1, CHOOSE i \in keep : \A j \in keep : j <= i)

\* The path the operating system resolves: trailing slashes do not count.
Clean(path) == IF TrimRight(path) = <<>> /\ path # <<>> THEN <<"/">> ELSE TrimRight(path)

IsDir(path) == Clean(path) \in {SnippitsDir, HomeDir, <<"/">>}

\* The entry of directory dir (a set of entries) that path names, or 0.
EntryAt(path, dir) ==
  LET hit == {i \in dir : path = SnippitsDir \o <<"/">> \o SnippitFiles[i].name}
  IN  IF hit = {} THEN 0 ELSE CHOOSE i \in hit : TRUE

IsFile(path, dir) == path \in {HelloFile, HiFile} \/ EntryAt(path, dir) # 0

\* os.Stat(path) succeeds
Stat(path, dir) == IsFile(path, dir) \/ IsDir(path)

\* ioutil.ReadFile
ReadFile(path, dir) ==
  IF path = HelloFile THEN [data |-> HelloContent, err |-> NoError]
  ELSE IF path = HiFile THEN [data |-> HiContent, err |-> NoError]
  ELSE IF EntryAt(path, dir) # 0
  THEN [data |-> SnippitFiles[EntryAt(path, dir)].content, err |-> NoError]
  ELSE IF IsDir(path) THEN [data |-> <<>>, err |-> Error("ReadFile", "is a directory")]
  ELSE [data |-> <<>>, err |-> Error("ReadFile", "no such file or directory")]

\* ioutil.ReadDir: the names of the entries, sorted by file name.
ReadDir(path, dir) ==
  IF Clean(path) = SnippitsDir
  THEN [names |-> [i \in 1..Cardinality(dir) |-> SnippitFiles[Sorted(dir)[i]].name],
        err |-> NoError]
  ELSE IF IsFile(path, dir) THEN [names |-> <<>>, err |-> Error("ReadDir", "not a directory")]
  ELSE IF IsDir(path) THEN [names |-> <<>>, err |-> NoError]
  ELSE [names |-> <<>>, err |-> Error("ReadDir", "no such file or directory")]

\* homedir.Expand
Expand(path) ==
  IF path = <<>> \/ path[1] # "~" THEN [path |-> path, err |-> NoError]
  ELSE IF Len(path) > 1 /\ path[2] # "/" /\ path[2] # "\\"
  THEN [path |-> <<>>, err |-> Error("homedir.Expand", "cannot expand user-specific home dir")]
  ELSE [path |-> HomeDir \o Tail(path), err |-> NoError]

\* A fault for Read: the string is taken as the contents, whatever it names.
ReadContents(poc, dir) == [content |-> poc, err |-> NoError]

\* pathorcontents.Read: the contents of the file poc names, or poc itself.
Read(poc, dir) ==
  IF Len(poc) = 0 THEN [content |-> poc, err |-> NoError]
  ELSE LET e == Expand(poc)
       IN  IF e.err # NoError THEN [content |-> e.path, err |-> e.err]
           ELSE IF Stat(e.path, dir)
           THEN LET f == ReadFile(e.path, dir)
                IN  [content |-> f.data, err |-> f.err]
           ELSE [content |-> poc, err |-> NoError]

(***************************************************************************)
(* text/template/parse (Go 1.7.4), for the part of the template language   *)
(* the data source's templates and snippits use: text, {{ .key }},         *)
(* {{ function args }}, string and boolean constants, {{ if }} with         *)
(* {{ else }} and {{ end }}, {{ define "name" }} and {{ template "name" }}.*)
(* Trim markers, comments, variables, pipes, parentheses, range, with and  *)
(* block are outside it.                                                   *)
(***************************************************************************)

KwIf == <<"i", "f">>

KwElse == <<"e", "l", "s", "e">>

KwEnd == <<"e", "n", "d">>

KwDefine == <<"d", "e", "f", "i", "n", "e">>

KwTemplate == <<"t", "e", "m", "p", "l", "a", "t", "e">>

KwTrue == <<"t", "r", "u", "e">>

KwFalse == <<"f", "a", "l", "s", "e">>

IsSpace(c) == c \in {" ", "\t", "\r", "\n"}

IsAlphaNumeric(c) ==
  \E i \in 1..Len(Ascii) :
    /\ Ascii[i] = c
    /\ i + 31 \in (48..57) \cup (65..90) \cup (97..122) \cup {95}

\* The first position from position from on where a and then b stand in text, or 0.
Index2(text, from, a, b) ==
  LET at == {i \in from..(Len(text) - 1) : text[i] = a /\ text[i + 1] = b}
  IN  IF at = {} THEN 0 ELSE Min(at)

Item(typ, val, msg) == [typ |-> typ, val |-> val, msg |-> msg]

\* lex: the items of a template text from position pos on: text up to the
\* next "{{", the inside of an action up to its "}}", or an error.
RECURSIVE lex(_, _)
lex(text, pos) ==
  LET l == Index2(text, pos, "{", "{")
  IN  IF l = 0
      THEN IF pos > Len(text) THEN <<>>
           ELSE <<Item("text", SubSeq(text, pos, Len(text)), "")>>
      ELSE LET r == Index2(text, l + 2, "}", "}")
               before == IF l > pos THEN <<Item("text", SubSeq(text, pos, l - 1), "")>>
                         ELSE <<>>
           IN  IF r = 0 \/ \E i \in (l + 2)..(r - 1) : text[i] = "\n"
               THEN before \o <<Item("error", <<>>, "unclosed action")>>
               ELSE before \o <<Item("action", SubSeq(text, l + 2, r - 1), "")>>
                      \o lex(text, r + 2)

\* The words of an action, which spaces separate.
RECURSIVE Fields(_)
Fields(s) ==
  LET starts == {i \in 1..Len(s) : ~IsSpace(s[i])}
  IN  IF starts = {} THEN <<>>
      ELSE LET a == Min(starts)
               ends == {i \in a..Len(s) : IsSpace(s[i])}
               b == IF ends = {} THEN Len(s) + 1 ELSE Min(ends)
           IN  <<SubSeq(s, a, b - 1)>> \o Fields(SubSeq(s, b, Len(s)))

IsField(w) == Len(w) > 1 /\ w[1] = "." /\ \A i \in 2..Len(w) : IsAlphaNumeric(w[i])

IsString(w) ==
  Len(w) >= 2 /\ w[1] = "\"" /\ w[Len(w)] = "\"" /\ \A i \in 2..(Len(w) - 1) : w[i] # "\""

IsBool(w) == w \in {KwTrue, KwFalse}

IsIdentifier(w) ==
  /\ Len(w) > 0
  /\ \A i \in 1..Len(w) : IsAlphaNumeric(w[i])
  /\ ~(\E i \in 1..Len(Ascii) : Ascii[i] = w[1] /\ i + 31 \in 48..57)
  /\ w \notin {KwIf, KwElse, KwEnd, KwDefine, KwTemplate, KwTrue, KwFalse}

Operand(kind, val) == [kind |-> kind, val |-> val]

\* An operand of a command: a field, a constant or a function.
operand(w) ==
  IF IsField(w) THEN Operand("field", Tail(w))
  ELSE IF IsString(w) THEN Operand("string", SubSeq(w, 2, Len(w) - 1))
  ELSE IF IsBool(w) THEN Operand("bool", w)
  ELSE IF IsIdentifier(w) THEN Operand("identifier", w)
  ELSE Operand("error", w)

\* command: the operands of the words ws; a function must be one of funcs.
command(ws, funcs, context) ==
  LET ops == [i \in 1..Len(ws) |-> operand(ws[i])]
  IN  IF ws = <<>> THEN [cmd |-> <<>>, msg |-> "missing value for " \o context]
      ELSE IF \E i \in 1..Len(ops) : ops[i].kind = "error"
      THEN [cmd |-> <<>>, msg |-> "unexpected token in " \o context]
      ELSE IF \E i \in 1..Len(ops) : ops[i].kind = "identifier" /\ ops[i].val \notin funcs
      THEN [cmd |-> <<>>, msg |-> "function not defined"]
      ELSE [cmd |-> ops, msg |-> ""]

Node(type, text, cmd, list, elseList) ==
  [type |-> type, text |-> text, cmd |-> cmd, list |-> list, elseList |-> elseList]

TextNode(text) == Node("text", text, <<>>, <<>>, <<>>)

ActionNode(cmd) == Node("action", <<>>, cmd, <<>>, <<>>)

IfNode(cmd, list, elseList) == Node("if", <<>>, cmd, list, elseList)

TemplateNode(name) == Node("template", name, <<>>, <<>>, <<>>)

Parsed(list, next, stop, msg) == [list |-> list, next |-> next, stop |-> stop, msg |-> msg]

Failed(msg) == Parsed(<<>>, 0, "error", msg)

Cons(node, rest) == IF rest.stop = "error" THEN rest ELSE [rest EXCEPT !.list = <<node>> \o @]

\* itemList: the nodes from item i up to the item that ends the list: the
\* end of the text, {{ end }}, {{ else }}, or (at the top level only) a
\* {{ define }}.  next is the item after the end (the define itself).
\* action is the item of an action, whose words are w; ifControl and
\* elseControl are an {{ if }} with its command c, its list (body) and the
\* list after its {{ else }} (els).
RECURSIVE itemList(_, _, _, _)
RECURSIVE action(_, _, _, _, _)
RECURSIVE pipeline(_, _, _, _, _)
RECURSIVE ifControl(_, _, _, _, _)
RECURSIVE elseControl(_, _, _, _, _, _)
itemList(its, i, funcs, top) ==
  IF i > Len(its) THEN Parsed(<<>>, i, "eof", "")
  ELSE IF its[i].typ = "error" THEN Failed(its[i].msg)
  ELSE IF its[i].typ = "text" THEN Cons(TextNode(its[i].val), itemList(its, i + 1, funcs, top))
  ELSE action(its, i, funcs, top, Fields(its[i].val))

action(its, i, funcs, top, w) ==
  IF w = <<>> THEN Failed("missing value for command")
  ELSE IF w[1] = KwEnd
  THEN IF Len(w) = 1 THEN Parsed(<<>>, i + 1, "end", "")
       ELSE Failed("unexpected token in end")
  ELSE IF w[1] = KwElse
  THEN IF Len(w) = 1 THEN Parsed(<<>>, i + 1, "else", "")
       ELSE Failed("unexpected token in else")
  ELSE IF w[1] = KwDefine
  THEN IF top THEN Parsed(<<>>, i, "define", "")
       ELSE Failed("unexpected <define> in command")
  ELSE IF w[1] = KwTemplate
  THEN IF Len(w) = 2 /\ IsString(w[2])
       THEN Cons(TemplateNode(SubSeq(w[2], 2, Len(w[2]) - 1)),
                 itemList(its, i + 1, funcs, top))
       ELSE Failed("unexpected token in template clause")
  ELSE IF w[1] = KwIf
  THEN ifControl(its, funcs, top, command(Tail(w), funcs, "if"),
                 itemList(its, i + 1, funcs, FALSE))
  ELSE pipeline(its, i, funcs, top, command(w, funcs, "command"))

pipeline(its, i, funcs, top, c) ==
  IF c.msg # "" THEN Failed(c.msg)
  ELSE Cons(ActionNode(c.cmd), itemList(its, i + 1, funcs, top))

ifControl(its, funcs, top, c, body) ==
  IF c.msg # "" THEN Failed(c.msg)
  ELSE IF body.stop = "error" THEN body
  ELSE IF body.stop = "eof" THEN Failed("unexpected EOF")
  ELSE IF body.stop = "end"
  THEN Cons(IfNode(c.cmd, body.list, <<>>), itemList(its, body.next, funcs, top))
  ELSE elseControl(its, funcs, top, c, body, itemList(its, body.next, funcs, FALSE))

elseControl(its, funcs, top, c, body, els) ==
  IF els.stop = "error" THEN els
  ELSE IF els.stop = "eof" THEN Failed("unexpected EOF")
  ELSE IF els.stop = "else" THEN Failed("expected end; found {{else}}")
  ELSE Cons(IfNode(c.cmd, body.list, els.list), itemList(its, els.next, funcs, top))

\* parse.IsEmptyTree: nothing but white space.
IsEmptyTree(list) ==
  \A i \in 1..Len(list) :
    list[i].type = "text" /\ \A j \in 1..Len(list[i].text) : IsSpace(list[i].text[j])

\* Tree.add: a tree joins the set of trees under its name (a function from
\* names to trees) unless a tree that is not empty has the name already; two
\* such trees are an error.
add(set, name, list) ==
  IF name \notin DOMAIN set \/ IsEmptyTree(set[name])
  THEN [set |-> (name :> list) @@ set, msg |-> ""]
  ELSE IF ~IsEmptyTree(list)
  THEN [set |-> set, msg |-> "multiple definition of template"]
  ELSE [set |-> set, msg |-> ""]

\* Tree.parse: the top level of a template text: nodes of the template
\* itself (root) and {{ define }}d templates until the end of the text.
\* parseList goes on from the list r that itemList gave, parseDefinition
\* from a {{ define }} of words w and list body, and parseDefined from the
\* set of trees with the definition added.
RECURSIVE parse(_, _, _, _, _, _)
RECURSIVE parseList(_, _, _, _, _, _)
RECURSIVE parseDefinition(_, _, _, _, _, _, _)
RECURSIVE parseDefined(_, _, _, _, _, _, _)
parse(name, its, i, funcs, root, set) ==
  parseList(name, its, funcs, root, set, itemList(its, i, funcs, TRUE))

parseList(name, its, funcs, root, set, r) ==
  IF r.stop = "error" THEN [trees |-> set, msg |-> r.msg]
  ELSE IF r.stop = "end" THEN [trees |-> set, msg |-> "unexpected {{end}}"]
  ELSE IF r.stop = "else" THEN [trees |-> set, msg |-> "unexpected {{else}}"]
  ELSE IF r.stop = "eof" THEN
    LET all == add(set, name, root \o r.list)
    IN  [trees |-> all.set, msg |-> all.msg]
  ELSE parseDefinition(name, its, funcs, root \o r.list, set, Fields(its[r.next].val),
                       itemList(its, r.next + 1, funcs, FALSE))

parseDefinition(name, its, funcs, root, set, w, body) ==
  IF ~(Len(w) = 2 /\ IsString(w[2]))
  THEN [trees |-> set, msg |-> "unexpected token in define clause"]
  ELSE IF body.stop = "error" THEN [trees |-> set, msg |-> body.msg]
  ELSE IF body.stop = "eof" THEN [trees |-> set, msg |-> "unexpected EOF"]
  ELSE IF body.stop = "else" THEN [trees |-> set, msg |-> "unexpected {{else}} in define"]
  ELSE parseDefined(name, its, funcs, root, set, body.next,
                    add(set, SubSeq(w[2], 2, Len(w[2]) - 1), body.list))

parseDefined(name, its, funcs, root, set, next, defined) ==
  IF defined.msg # "" THEN [trees |-> set, msg |-> defined.msg]
  ELSE parse(name, its, next, funcs, root, defined.set)

\* No tree: the function with no name in its domain.
NoTrees == [n \in {} |-> <<>>]

\* parse.Parse: the trees a template text gives, by name.
Parse(name, text, funcs) == parse(name, lex(text, 1), 1, funcs, <<>>, NoTrees)


(***************************************************************************)
(* text/template (Go 1.7.4): the namespace the templates of one read       *)
(* share, a function from template names to trees.                         *)
(***************************************************************************)

MainName == <<"m", "a", "i", "n">>

\* templateFuncs is a list of templates methods we support: the names, and
\* per name the types of the parameters.
templateFuncs ==
  (<<"u", "p", "p", "e", "r">> :> <<"string">>) @@ (<<"l", "o", "w", "e", "r">> :> <<"string">>)
    @@ (<<"s", "p", "l", "i", "t">> :> <<"string", "string">>) @@ (<<"j", "o", "i", "n">> :> <<"[]string", "string">>)
    @@ (<<"e", "m", "p", "t", "y">> :> <<"string">>)

\* The functions of text/template itself, which every template may name.
builtins ==
  { <<"a", "n", "d">>, <<"c", "a", "l", "l">>, <<"h", "t", "m", "l">>, <<"i", "n", "d", "e", "x">>, <<"j", "s">>, <<"l", "e", "n">>, <<"n", "o", "t">>, <<"o", "r">>,
    <<"p", "r", "i", "n", "t">>, <<"p", "r", "i", "n", "t", "f">>, <<"p", "r", "i", "n", "t", "l", "n">>, <<"u", "r", "l", "q", "u", "e", "r", "y">>,
    <<"e", "q">>, <<"g", "e">>, <<"g", "t">>, <<"l", "e">>, <<"l", "t">>, <<"n", "e">> }

\* A fault for associate: a later definition replaces an earlier one (as
\* text/template does from Go 1.8 on).
associateReplacing(ns, name, tree) == [replace |-> TRUE, msg |-> ""]

\* Template.associate: whether the tree becomes the template of that name.
\* A template that is not empty is never defined again; an empty tree never
\* replaces anything.
associate(ns, name, tree) ==
  IF name \in DOMAIN ns /\ IsEmptyTree(tree) THEN [replace |-> FALSE, msg |-> ""]
  ELSE IF name \in DOMAIN ns /\ ~IsEmptyTree(ns[name])
  THEN [replace |-> FALSE, msg |-> "redefinition of template"]
  ELSE [replace |-> TRUE, msg |-> ""]

\* Template.AddParseTree
AddParseTree(ns, name, tree) ==
  LET a == associate(ns, name, tree)
  IN  IF a.msg # "" THEN [ns |-> ns, err |-> Error("template.Parse", a.msg)]
      ELSE IF a.replace THEN [ns |-> (name :> tree) @@ ns, err |-> NoError]
      ELSE [ns |-> ns, err |-> NoError]

\* The loop of Template.Parse over the trees of one text; their names
\* differ, so that the order of the loop does not show in the result.
RECURSIVE AddParseTrees(_, _, _)
AddParseTrees(ns, trees, names) ==
  IF names = {} THEN [ns |-> ns, err |-> NoError]
  ELSE LET name == CHOOSE n \in names : TRUE
           a == AddParseTree(ns, name, trees[name])
       IN  IF a.err # NoError THEN a
           ELSE AddParseTrees(a.ns, trees, names \ {name})

\* Template.Parse on the template called name of the namespace ns: the
\* text is parsed and the trees p it gives are added.
addParsed(ns, p) ==
  IF p.msg # "" THEN [ns |-> ns, err |-> Error("template.Parse", p.msg)]
  ELSE AddParseTrees(ns, p.trees, DOMAIN p.trees)

TemplateParse(ns, name, text, funcs) == addParsed(ns, Parse(name, text, funcs))

\* filepath.Base
Base(path) ==
  LET t == TrimRight(path)
      slashes == {i \in 1..Len(t) : t[i] = "/"}
  IN  IF path = <<>> THEN <<".">>
      ELSE IF t = <<>> THEN <<"/">>
      ELSE IF slashes = {} THEN t
      ELSE SubSeq(t, (CHOOSE i \in slashes : \A j \in slashes : j <= i) + 1, Len(t))

\* Template.ParseFiles: each file, in the order given, is read (b) and
\* parsed as the template called by the base name of the file (t).
RECURSIVE parseFiles(_, _, _, _, _)
RECURSIVE parseFile(_, _, _, _, _, _)
RECURSIVE parsedFile(_, _, _, _, _)
parseFiles(ns, filenames, i, dir, funcs) ==
  IF i > Len(filenames) THEN [ns |-> ns, err |-> NoError]
  ELSE parseFile(ns, filenames, i, dir, funcs, ReadFile(filenames[i], dir))

parseFile(ns, filenames, i, dir, funcs, b) ==
  IF b.err # NoError THEN [ns |-> ns, err |-> b.err]
  ELSE parsedFile(filenames, i, dir, funcs,
                  TemplateParse(ns, Base(filenames[i]), b.data, funcs))

parsedFile(filenames, i, dir, funcs, t) ==
  IF t.err # NoError THEN t
  ELSE parseFiles(t.ns, filenames, i + 1, dir, funcs)

ParseFiles(ns, filenames, dir, funcs) ==
  IF Len(filenames) = 0
  THEN [ns |-> ns, err |-> Error("template.ParseFiles", "no files named in call to ParseFiles")]
  ELSE parseFiles(ns, filenames, 1, dir, funcs)

(***************************************************************************)
(* text/template (Go 1.7.4): execution.  The data is the map of vars,      *)
(* whose values are strings; a value is a string, a boolean, a list of     *)
(* strings, the nil interface a map gives for a key it does not hold, or   *)
(* no value at all (the zero reflect.Value).                               *)
(***************************************************************************)

Value(kind, s, b, l) == [kind |-> kind, s |-> s, b |-> b, l |-> l]

StringValue(s) == Value("string", s, FALSE, <<>>)

BoolValue(b) == Value("bool", <<>>, b, <<>>)

ListValue(l) == Value("[]string", <<>>, FALSE, l)

NilInterface == Value("nil", <<>>, FALSE, <<>>)

Invalid == Value("invalid", <<>>, FALSE, <<>>)

\* The data of an execution: the map of vars, or nothing at all inside a
\* {{ template "name" }}, which passes no data on.
Dot(data) == [valid |-> TRUE, vars |-> data]

NilDot == [valid |-> FALSE, vars |-> <<>>]

Result(val, msg) == [val |-> val, msg |-> msg]

\* strings.ToUpper and strings.ToLower
ToUpper(s) ==
  [i \in 1..Len(s) |->
     IF \E k \in 66..91 : Ascii[k] = s[i]
     THEN Ascii[(CHOOSE k \in 66..91 : Ascii[k] = s[i]) - 32] ELSE s[i]]

ToLower(s) ==
  [i \in 1..Len(s) |->
     IF \E k \in 34..59 : Ascii[k] = s[i]
     THEN Ascii[(CHOOSE k \in 34..59 : Ascii[k] = s[i]) + 32] ELSE s[i]]

\* strings.Split
RECURSIVE Split(_, _)
Split(s, sep) ==
  LET at == {i \in 1..(Len(s) - Len(sep) + 1) : SubSeq(s, i, i + Len(sep) - 1) = sep}
  IN  IF sep = <<>> THEN [i \in 1..Len(s) |-> <<s[i]>>]
      ELSE IF at = {} THEN <<s>>
      ELSE <<SubSeq(s, 1, Min(at) - 1)>> \o Split(SubSeq(s, Min(at) + Len(sep), Len(s)), sep)

\* strings.Join
RECURSIVE Join(_, _)
Join(l, sep) ==
  IF l = <<>> THEN <<>>
  ELSE IF Len(l) = 1 THEN l[1]
  ELSE l[1] \o sep \o Join(Tail(l), sep)

\* The bodies of templateFuncs.
call(name, argv) ==
  IF name = <<"u", "p", "p", "e", "r">> THEN StringValue(ToUpper(argv[1].s))
  ELSE IF name = <<"l", "o", "w", "e", "r">> THEN StringValue(ToLower(argv[1].s))
  ELSE IF name = <<"s", "p", "l", "i", "t">> THEN ListValue(Split(argv[1].s, argv[2].s))
  ELSE IF name = <<"j", "o", "i", "n">> THEN StringValue(Join(argv[1].l, argv[2].s))
  ELSE BoolValue(argv[1].s = <<>>)

\* A fault for evalField: the map is not consulted.
evalFieldMissing(dot, name, hasArgs) == Result(NilInterface, "")

\* state.evalField: the entry of the map under the key; without data, no
\* value; for a key the map does not hold, the nil interface.
evalField(dot, name, hasArgs) ==
  IF ~dot.valid THEN Result(Invalid, "")
  ELSE IF hasArgs THEN Result(Invalid, "is not a method but has arguments")
  ELSE IF name \in DOMAIN dot.vars THEN Result(StringValue(dot.vars[name]), "")
  ELSE Result(NilInterface, "")

\* state.validateType
validateType(r, typ) ==
  IF r.msg # "" THEN r
  ELSE IF r.val.kind = "invalid"
  THEN IF typ = "[]string" THEN Result(ListValue(<<>>), "")
       ELSE Result(Invalid, "invalid value; expected string")
  ELSE IF r.val.kind = typ THEN r
  ELSE Result(Invalid, "wrong type for value")

\* state.evalCall and state.evalArg: a function called with the operands
\* args, each evaluated as the type of its parameter; the functions of
\* text/template itself are outside the model.
RECURSIVE evalCall(_, _, _)
RECURSIVE evalArg(_, _, _)
evalCall(dot, name, args) ==
  IF name \notin DOMAIN templateFuncs THEN Result(Invalid, "function outside the model")
  ELSE LET sig == templateFuncs[name]
           argv == [i \in 1..Len(sig) |-> evalArg(dot, sig[i], args[i])]
           bad == {i \in 1..Len(sig) : argv[i].msg # ""}
       IN  IF Len(args) # Len(sig) THEN Result(Invalid, "wrong number of args")
           ELSE IF bad # {} THEN Result(Invalid, argv[Min(bad)].msg)
           ELSE Result(call(name, [i \in 1..Len(sig) |-> argv[i].val]), "")

evalArg(dot, typ, op) ==
  IF op.kind = "field" THEN validateType(evalField(dot, op.val, FALSE), typ)
  ELSE IF op.kind = "identifier" THEN validateType(evalCall(dot, op.val, <<>>), typ)
  ELSE IF typ # "string" THEN Result(Invalid, "can't handle constant for arg of type")
  ELSE IF op.kind = "string" THEN Result(StringValue(op.val), "")
  ELSE Result(Invalid, "expected string")

\* state.evalCommand
evalCommand(dot, cmd) ==
  IF cmd[1].kind = "field" THEN evalField(dot, cmd[1].val, Len(cmd) > 1)
  ELSE IF cmd[1].kind = "identifier" THEN evalCall(dot, cmd[1].val, Tail(cmd))
  ELSE IF Len(cmd) > 1 THEN Result(Invalid, "can't give argument to non-function")
  ELSE IF cmd[1].kind = "string" THEN Result(StringValue(cmd[1].val), "")
  ELSE Result(BoolValue(cmd[1].val = KwTrue), "")

\* The step of state.evalPipeline that digs the value out of an interface:
\* a nil interface holds no value.
indirectInterface(r) ==
  IF r.msg = "" /\ r.val.kind = "nil" THEN Result(Invalid, "") ELSE r

\* state.evalPipeline
evalPipeline(dot, cmd) == indirectInterface(evalCommand(dot, cmd))

\* isTrue: the truth of a value in {{ if }}.
isTrue(v) ==
  IF v.kind = "string" THEN Len(v.s) > 0
  ELSE IF v.kind = "bool" THEN v.b
  ELSE IF v.kind = "[]string" THEN Len(v.l) > 0
  ELSE FALSE

\* state.printValue (fmt.Fprint of the value)
printValue(v) ==
  IF v.kind = "string" THEN v.s
  ELSE IF v.kind = "bool" THEN (IF v.b THEN KwTrue ELSE KwFalse)
  ELSE IF v.kind = "[]string" THEN <<"[">> \o Join(v.l, <<" ">>) \o <<"]">>
  ELSE <<"<", "n", "o", " ", "v", "a", "l", "u", "e", ">">>

\* state.walk over the nodes of list from node i on: what has been written
\* (out) up to the end or up to the error.  walkAction and walkIf go on
\* from the value v of the command of the node, walkNext from what a list
\* inside the node (a branch, a template) has written.
RECURSIVE walk(_, _, _, _, _)
RECURSIVE walkAction(_, _, _, _, _, _)
RECURSIVE walkIf(_, _, _, _, _, _)
RECURSIVE walkNext(_, _, _, _, _)
walk(list, i, dot, ns, out) ==
  IF i > Len(list) THEN [out |-> out, msg |-> ""]
  ELSE IF list[i].type = "text" THEN walk(list, i + 1, dot, ns, out \o list[i].text)
  ELSE IF list[i].type = "action"
  THEN walkAction(list, i, dot, ns, out, evalPipeline(dot, list[i].cmd))
  ELSE IF list[i].type = "if"
  THEN walkIf(list, i, dot, ns, out, evalPipeline(dot, list[i].cmd))
  ELSE IF list[i].text \notin DOMAIN ns THEN [out |-> out, msg |-> "template not defined"]
  ELSE walkNext(list, i, dot, ns, walk(ns[list[i].text], 1, NilDot, ns, out))

walkAction(list, i, dot, ns, out, v) ==
  IF v.msg # "" THEN [out |-> out, msg |-> v.msg]
  ELSE walk(list, i + 1, dot, ns, out \o printValue(v.val))

walkIf(list, i, dot, ns, out, v) ==
  IF v.msg # "" THEN [out |-> out, msg |-> v.msg]
  ELSE walkNext(list, i, dot, ns,
                walk(IF isTrue(v.val) THEN list[i].list ELSE list[i].elseList, 1, dot, ns, out))

walkNext(list, i, dot, ns, w) ==
  IF w.msg # "" THEN w ELSE walk(list, i + 1, dot, ns, w.out)

\* What Template.Execute returns for what walk gave.
executed(w) ==
  [buf |-> w.out,
   err |-> IF w.msg = "" THEN NoError ELSE Error("template.ExecuteTemplate", w.msg)]

\* A fault for ExecuteTemplate: an error of the execution is dropped.
ExecuteTemplateLenient(ns, name, data) ==
  IF name \notin DOMAIN ns THEN [buf |-> <<>>, err |-> NoError]
  ELSE [buf |-> walk(ns[name], 1, Dot(data), ns, <<>>).out, err |-> NoError]

\* Template.ExecuteTemplate: the template called name of the namespace,
\* executed on the data; buf is what has been written to the buffer.
ExecuteTemplate(ns, name, data) ==
  IF name \notin DOMAIN ns
  THEN [buf |-> <<>>, err |-> Error("template.ExecuteTemplate", "no template associated")]
  ELSE executed(walk(ns[name], 1, Dot(data), ns, <<>>))

(***************************************************************************)
(* The data source.  The host (Terraform) invokes the read callback with a *)
(* fresh schema.ResourceData d holding the configuration: template,        *)
(* snippits and vars; rendered and the id are not set.  The callback runs   *)
(* renderGoTemplate stage by stage; the host keeps the rendered text and    *)
(* the id of the last read that succeeded (state).                          *)
(***************************************************************************)

\* The templates the configurations choose among.
Templates ==
  { <<>>,
    <<"T", "h", "i", "s", " ", "i", "s", " ", "a", " ", "t", "e", "m", "p", "l", "a", "t", "e", "!">>,
    <<"H", "e", "l", "l", "o", " ", "{", "{", " ", ".", "n", "a", "m", "e", " ", "}", "}">>,
    <<"{", "{", " ", "i", "f", " ", "i", "s", "_", "t", "r", "u", "e", " ", ".", "e", "n", "a", "b", "l", "e", "d", " ", "}", "}", "i", "s", "_", "t", "r", "u", "e", "{", "{", " ", "e", "n", "d", " ", "}", "}">>,
    <<"{", "{", " ", "u", "p", "p", "e", "r", " ", ".", "n", "a", "m", "e", " ", "}", "}", "!">>,
    <<"A", "{", "{", " ", "t", "e", "m", "p", "l", "a", "t", "e", " ", "\"", "f", "o", "o", "\"", " ", "}", "}">>,
    <<"/", "n", "o", "{", "{">>,
    <<"/", "h", "e", "l", "l", "o", ".", "t", "m", "p", "l">>,
    <<"~", "/", "h", "i", ".", "t", "m", "p", "l">>,
    <<"~", "b", "o", "b">>,
    <<"/", "s", "n", "i", "p">> }

\* The maps of vars.
NoVars == [k \in {} |-> <<>>]

SomeVars == (<<"n", "a", "m", "e">> :> <<"r", "o", "h", "i", "t", "h">>) @@ (<<"e", "n", "a", "b", "l", "e", "d">> :> <<"1">>)

VarsChoices == {NoVars, SomeVars}

\* The values of snippits: not set, the directory of snippits, and a
\* directory that does not exist.
SnippitsPaths == {<<>>, SnippitsDir, <<"/", "n", "o", "d", "i", "r">>}

VARIABLES
  pc,        \* where the read callback stands: idle, a stage, or done
  d,         \* the schema.ResourceData of the read
  dir,       \* the entries of the snippits directory during the read
  state,     \* what the host keeps of the last read that succeeded
  content,   \* renderGoTemplate: the template text
  tmpl,      \* renderGoTemplate: the namespace of the templates
  files,     \* renderGoTemplate: the paths of the snippit files
  buf,       \* renderGoTemplate: the buffer the template is executed into
  rendered,  \* the text renderGoTemplate returns
  err,       \* the error renderGoTemplate returns, which the callback returns
  trace      \* the stages the read has run, in order

vars == <<pc, d, dir, state, content, tmpl, files, buf, rendered, err, trace>>

locals == <<content, tmpl, files, buf, rendered, err>>

Funcs == DOMAIN templateFuncs \cup builtins

ResourceData(template, snippits, vs) ==
  [template |-> template, snippits |-> snippits, vars |-> vs, rendered |-> <<>>, id |-> ""]

Init ==
  /\ pc = "idle"
  /\ d = ResourceData(<<>>, <<>>, NoVars)
  /\ dir = {}
  /\ state = [rendered |-> <<>>, id |-> ""]
  /\ content = <<>>
  /\ tmpl = NoTrees
  /\ files = <<>>
  /\ buf = <<>>
  /\ rendered = <<>>
  /\ err = NoError
  /\ trace = <<>>

\* return "", err
Fail(e) ==
  /\ pc' = "done"
  /\ rendered' = <<>>
  /\ err' = e

\* The host invokes the read callback on a configuration.
Configure ==
  /\ pc = "idle"
  /\ \E template \in Templates, snippits \in SnippitsPaths, vs \in VarsChoices :
       d' = ResourceData(template, snippits, vs)
  /\ dir' \in Directories
  /\ pc' = "resolve"
  /\ UNCHANGED <<state, locals, trace>>

\* step: read in the template content or file
ReadTemplate ==
  /\ pc = "resolve"
  /\ trace' = Append(trace, "resolve")
  /\ \E r \in {Read(d.template, dir)} :
         IF r.err # NoError
         THEN Fail(r.err) /\ UNCHANGED content
         ELSE content' = r.content /\ pc' = "parse" /\ UNCHANGED <<rendered, err>>
  /\ UNCHANGED <<d, dir, state, tmpl, files, buf>>

\* A fault for ParseMain: the error is noted and the read goes on.
ParseMainContinuing ==
  /\ pc = "parse"
  /\ trace' = Append(trace, "parse")
  /\ \E t \in {TemplateParse(NoTrees, MainName, content, Funcs)} :
         /\ tmpl' = t.ns
         /\ err' = t.err
         /\ pc' = IF d.snippits # <<>> THEN "list" ELSE "execute"
  /\ UNCHANGED <<d, dir, state, content, files, buf, rendered>>

\* step: load the main template
ParseMain ==
  /\ pc = "parse"
  /\ trace' = Append(trace, "parse")
  /\ \E t \in {TemplateParse(NoTrees, MainName, content, Funcs)} :
         IF t.err # NoError
         THEN Fail(t.err) /\ UNCHANGED tmpl
         ELSE /\ tmpl' = t.ns
              /\ pc' = IF d.snippits # <<>> THEN "list" ELSE "execute"
              /\ UNCHANGED <<rendered, err>>
  /\ UNCHANGED <<d, dir, state, content, files, buf>>

\* A fault for ReadSnippits: a directory that cannot be listed counts as
\* a directory without entries.
ReadSnippitsLenient ==
  /\ pc = "list"
  /\ trace' = Append(trace, "list")
  /\ \E dfiles \in {ReadDir(d.snippits, dir)} :
       \E paths \in {[i \in 1..Len(dfiles.names) |->
                       TrimRight(d.snippits) \o <<"/">> \o dfiles.names[i]]} :
         /\ files' = paths
         /\ pc' = IF Len(paths) > 0 THEN "snippets" ELSE "execute"
  /\ UNCHANGED <<d, dir, state, content, tmpl, buf, rendered, err>>

\* A fault for ReadSnippits: the files are parsed even when there is none.
ReadSnippitsUnguarded ==
  /\ pc = "list"
  /\ trace' = Append(trace, "list")
  /\ \E dfiles \in {ReadDir(d.snippits, dir)} :
       \E paths \in {[i \in 1..Len(dfiles.names) |->
                       TrimRight(d.snippits) \o <<"/">> \o dfiles.names[i]]} :
         IF dfiles.err # NoError
         THEN Fail(dfiles.err) /\ UNCHANGED files
         ELSE files' = paths /\ pc' = "snippets" /\ UNCHANGED <<rendered, err>>
  /\ UNCHANGED <<d, dir, state, content, tmpl, buf>>

\* build a list of files under the directory
ReadSnippits ==
  /\ pc = "list"
  /\ trace' = Append(trace, "list")
  /\ \E dfiles \in {ReadDir(d.snippits, dir)} :
       \E paths \in {[i \in 1..Len(dfiles.names) |->
                       TrimRight(d.snippits) \o <<"/">> \o dfiles.names[i]]} :
         IF dfiles.err # NoError
         THEN Fail(dfiles.err) /\ UNCHANGED files
         ELSE /\ files' = paths
              /\ pc' = IF Len(paths) > 0 THEN "snippets" ELSE "execute"
              /\ UNCHANGED <<rendered, err>>
  /\ UNCHANGED <<d, dir, state, content, tmpl, buf>>

\* step: parse the snippit files and add to the template
ParseSnippits ==
  /\ pc = "snippets"
  /\ trace' = Append(trace, "snippets")
  /\ \E t \in {ParseFiles(tmpl, files, dir, Funcs)} :
         IF t.err # NoError
         THEN Fail(t.err) /\ UNCHANGED tmpl
         ELSE tmpl' = t.ns /\ pc' = "execute" /\ UNCHANGED <<rendered, err>>
  /\ UNCHANGED <<d, dir, state, content, files, buf>>

\* A fault for Execute: what was written before the error is returned.
ExecutePartial ==
  /\ pc = "execute"
  /\ trace' = Append(trace, "execute")
  /\ \E e \in {ExecuteTemplate(tmpl, MainName, d.vars)} :
         /\ buf' = e.buf
         /\ rendered' = e.buf
         /\ IF e.err # NoError
            THEN pc' = "done" /\ err' = e.err
            ELSE pc' = "set" /\ UNCHANGED err
  /\ UNCHANGED <<d, dir, state, content, tmpl, files>>

\* step: render the template
Execute ==
  /\ pc = "execute"
  /\ trace' = Append(trace, "execute")
  /\ \E e \in {ExecuteTemplate(tmpl, MainName, d.vars)} :
         /\ buf' = e.buf
         /\ IF e.err # NoError
            THEN Fail(e.err)
            ELSE rendered' = e.buf /\ pc' = "set" /\ UNCHANGED err
  /\ UNCHANGED <<d, dir, state, content, tmpl, files>>

\* A fault for SetResult: the id is the hash of the template text.
SetResultOfContent ==
  /\ pc = "set"
  /\ trace' = Append(trace, "hash")
  /\ d' = [d EXCEPT !.rendered = rendered, !.id = hash(content)]
  /\ pc' = "done"
  /\ UNCHANGED <<dir, state, locals>>

\* d.Set("rendered", rendered); d.SetId(hash(rendered))
SetResult ==
  /\ pc = "set"
  /\ trace' = Append(trace, "hash")
  /\ d' = [d EXCEPT !.rendered = rendered, !.id = hash(rendered)]
  /\ pc' = "done"
  /\ UNCHANGED <<dir, state, locals>>

\* The callback has returned: the host keeps the result of a read that
\* succeeded, and the read is over.
Return ==
  /\ pc = "done"
  /\ state' = IF err = NoError THEN [rendered |-> d.rendered, id |-> d.id] ELSE state
  /\ pc' = "idle"
  /\ d' = ResourceData(<<>>, <<>>, NoVars)
  /\ dir' = {}
  /\ content' = <<>>
  /\ tmpl' = NoTrees
  /\ files' = <<>>
  /\ buf' = <<>>
  /\ rendered' = <<>>
  /\ err' = NoError
  /\ trace' = <<>>

Next ==
  \/ Configure
  \/ ReadTemplate
  \/ ParseMain
  \/ ReadSnippits
  \/ ParseSnippits
  \/ Execute
  \/ SetResult
  \/ Return

Spec == Init /\ [][Next]_vars

\* renderGoTemplate as a function of the configuration and the directory:
\* the text and the error it returns.
renderGoTemplate(templateName, snippitsPath, vs, directory) ==
  LET r == Read(templateName, directory)
      main == TemplateParse(NoTrees, MainName, r.content, Funcs)
      dfiles == ReadDir(snippitsPath, directory)
      paths == [i \in 1..Len(dfiles.names) |->
                  TrimRight(snippitsPath) \o <<"/">> \o dfiles.names[i]]
      parsed == ParseFiles(main.ns, paths, directory, Funcs)
      ns == IF snippitsPath # <<>> /\ Len(paths) > 0 THEN parsed.ns ELSE main.ns
      e == ExecuteTemplate(ns, MainName, vs)
  IN  IF r.err # NoError THEN [rendered |-> <<>>, err |-> r.err]
      ELSE IF main.err # NoError THEN [rendered |-> <<>>, err |-> main.err]
      ELSE IF snippitsPath # <<>> /\ dfiles.err # NoError
      THEN [rendered |-> <<>>, err |-> dfiles.err]
      ELSE IF snippitsPath # <<>> /\ Len(paths) > 0 /\ parsed.err # NoError
      THEN [rendered |-> <<>>, err |-> parsed.err]
      ELSE IF e.err # NoError THEN [rendered |-> <<>>, err |-> e.err]
      ELSE [rendered |-> e.buf, err |-> NoError]

(***************************************************************************)
(* Properties.                                                             *)
(***************************************************************************)

Done == pc = "done"

Succeeded == pc = "done" /\ err = NoError

\* The read has run the stage.
Ran(stage) == \E i \in 1..Len(trace) : trace[i] = stage

\* The kinds of error of the specification, by the call that failed.
ErrorKind(e) ==
  IF e.op \in {"homedir.Expand", "ReadFile"} THEN "ReadError"
  ELSE IF e.op = "ReadDir" THEN "DirectoryError"
  ELSE IF e.op \in {"template.Parse", "template.ParseFiles"} THEN "ParseError"
  ELSE IF e.op = "template.ExecuteTemplate" THEN "ExecutionError"
  ELSE "none"

\* A text of literal text and {{ .key }} placeholders with every key in vs
\* (ok), and that text with each placeholder replaced by the value of its
\* key.
RECURSIVE Substituted(_, _)
Substituted(t, vs) ==
  LET l == Index2(t, 1, "{", "{")
      r == Index2(t, l + 2, "}", "}")
      w == Fields(SubSeq(t, l + 2, r - 1))
      rest == Substituted(SubSeq(t, r + 2, Len(t)), vs)
  IN  IF l = 0 THEN [ok |-> TRUE, text |-> t]
      ELSE IF r = 0 THEN [ok |-> FALSE, text |-> <<>>]
      ELSE IF Len(w) # 1 THEN [ok |-> FALSE, text |-> <<>>]
      ELSE IF ~IsField(w[1]) \/ Tail(w[1]) \notin DOMAIN vs THEN [ok |-> FALSE, text |-> <<>>]
      ELSE [ok |-> rest.ok, text |-> SubSeq(t, 1, l - 1) \o vs[Tail(w[1])] \o rest.text]

\* The template string begins with "~" or is the path of a file or of a
\* directory.
PathOrTilde(t) == t # <<>> /\ (t[1] = "~" \/ Stat(t, dir))

\* C1 as stated: a template of literal text and placeholders whose keys are
\* all in vars, read without snippits, renders as its own text with every
\* placeholder replaced by the value of its key.
C1_LiteralAndPlaceholders ==
  (Done /\ d.snippits = <<>> /\ Substituted(d.template, d.vars).ok)
    => (err = NoError /\ rendered = Substituted(d.template, d.vars).text)

\* C1 amended: the same, for a template string that does not begin with "~"
\* and is not the path of an existing file or directory.
C1_InlineLiteralAndPlaceholders ==
  (Done /\ d.snippits = <<>> /\ Substituted(d.template, d.vars).ok
     /\ ~PathOrTilde(d.template))
    => (err = NoError /\ rendered = Substituted(d.template, d.vars).text)

C1_Witness ==
  /\ Done
  /\ d.template = <<"H", "e", "l", "l", "o", " ", "{", "{", " ", ".", "n", "a", "m", "e", " ", "}", "}">>
  /\ d.vars = SomeVars
  /\ d.snippits = <<>>
  /\ rendered = <<"H", "e", "l", "l", "o", " ", "r", "o", "h", "i", "t", "h">>

\* C2: a template that calls is_true on .enabled is parsed, and with
\* enabled one of "1", "true", "True" it renders the branch of the if.
C2_IsTrueHelper ==
  (Done /\ d.template = <<"{", "{", " ", "i", "f", " ", "i", "s", "_", "t", "r", "u", "e", " ", ".", "e", "n", "a", "b", "l", "e", "d", " ", "}", "}", "i", "s", "_", "t", "r", "u", "e", "{", "{", " ", "e", "n", "d", " ", "}", "}">>
     /\ d.snippits = <<>>
     /\ <<"e", "n", "a", "b", "l", "e", "d">> \in DOMAIN d.vars
     /\ d.vars[<<"e", "n", "a", "b", "l", "e", "d">>] \in {<<"1">>, <<"t", "r", "u", "e">>, <<"T", "r", "u", "e">>})
    => (err = NoError /\ rendered = <<"i", "s", "_", "t", "r", "u", "e">>)

\* C3: after a read that succeeded the id is the hash of the rendered
\* attribute that read set (the SHA-256 digest in hexadecimal, as the known
\* digests of "" and "Hello rohith" show), and a read that renders the text
\* an earlier read rendered gives the id that read gave.
C3_IdIsHashOfRendered ==
  /\ Succeeded =>
       /\ d.rendered = rendered
       /\ d.id = hash(d.rendered)
       /\ d.rendered = <<>> =>
            d.id = "e3b0c44298fc1c149afbf4c8996fb92427ae41e4649b934ca495991b7852b855"
       /\ d.rendered = <<"H", "e", "l", "l", "o", " ", "r", "o", "h", "i", "t", "h">> =>
            d.id = "1269487d19fab863bdc9d437348716812f60820b13c7e257ea6dcae7a894cc9e"
       /\ (state.id # "" /\ state.rendered = d.rendered) => state.id = d.id
  /\ state.id # "" => state.id = hash(state.rendered)

C3_Witness ==
  /\ Succeeded
  /\ d.template = HelloFile
  /\ state.rendered = d.rendered
  /\ state.id = d.id
  /\ d.id = "1269487d19fab863bdc9d437348716812f60820b13c7e257ea6dcae7a894cc9e"

\* C4: a step that fails returns no text and leaves the rendered attribute
\* and the id as they were; the host keeps what it held when the read
\* failed; the rendered attribute and the id change only in the one step
\* that sets both after a render that succeeded (or with the ResourceData
\* itself, when the read is over).
C4_AllOrNothing ==
  [][ /\ (pc' = "done" /\ err' # NoError) =>
           (rendered' = <<>> /\ d' = d /\ d.rendered = <<>> /\ d.id = "")
      /\ (pc = "done" /\ err # NoError) => state' = state
      /\ (d'.rendered # d.rendered \/ d'.id # d.id) =>
           \/ /\ pc = "set"
              /\ err = NoError
              /\ d'.rendered = rendered
              /\ d'.id # ""
           \/ pc' = "idle" ]_vars

C4_Witness ==
  /\ Done
  /\ err.op = "template.ExecuteTemplate"
  /\ buf # <<>>
  /\ rendered = <<>>
  /\ d.id = ""
  /\ state.id # ""

\* The nodes of a template that name a template the namespace does not hold.
UsesMissingFragment(list, ns) ==
  \E i \in 1..Len(list) : list[i].type = "template" /\ list[i].text \notin DOMAIN ns

\* The nodes of a template that name a key the vars do not hold.
UsesMissingKey(list, vs) ==
  \E i \in 1..Len(list) :
    /\ list[i].type = "action"
    /\ \E j \in 1..Len(list[i].cmd) :
         list[i].cmd[j].kind = "field" /\ list[i].cmd[j].val \notin DOMAIN vs

\* A template of text and {{ .key }} only.
OnlyTextAndKeys(list) ==
  \A i \in 1..Len(list) :
    \/ list[i].type = "text"
    \/ list[i].type = "action" /\ Len(list[i].cmd) = 1 /\ list[i].cmd[1].kind = "field"

\* Such a template with the value of each key, and <no value> for a key
\* that the vars do not hold.
RECURSIVE Printed(_, _)
Printed(list, vs) ==
  IF list = <<>> THEN <<>>
  ELSE (IF list[1].type = "text" THEN list[1].text
        ELSE IF list[1].cmd[1].val \in DOMAIN vs THEN vs[list[1].cmd[1].val]
        ELSE <<"<", "n", "o", " ", "v", "a", "l", "u", "e", ">">>) \o Printed(Tail(list), vs)

Expandable(t) == t = <<>> \/ t[1] # "~" \/ Len(t) = 1 \/ t[2] \in {"/", "\\"}

PathOf(t) == IF t # <<>> /\ t[1] = "~" THEN HomeDir \o Tail(t) ELSE t

\* The template string names an existing file.
NamesFile(t) == t # <<>> /\ Expandable(t) /\ IsFile(PathOf(t), dir)

\* The template string names a directory, or a home directory of a user.
Unreadable(t) == t # <<>> /\ (~Expandable(t) \/ IsDir(PathOf(t)))

\* The string is not valid inline content.
InvalidInline(t) == Parse(MainName, t, Funcs).msg # ""

\* C6 as stated: the text that is parsed is the content of the file the
\* template string names, and the string itself when it names no existing
\* file; a string that names nothing and is not a valid template gives a
\* ParseError or a ReadError.
C6_SourceResolution ==
  Done =>
    /\ NamesFile(d.template) =>
         (Ran("parse") /\ content = ReadFile(PathOf(d.template), dir).data)
    /\ ~NamesFile(d.template) => (Ran("parse") /\ content = d.template)
    /\ (~NamesFile(d.template) /\ InvalidInline(d.template)) =>
         ErrorKind(err) \in {"ParseError", "ReadError"}

\* C6 amended: as stated, except that a string that names a directory, or
\* begins with "~" and a user name, is not taken as the template: the read
\* fails with a ReadError.
C6_SourceResolutionOrReadError ==
  Done =>
    /\ NamesFile(d.template) =>
         (Ran("parse") /\ content = ReadFile(PathOf(d.template), dir).data)
    /\ (~NamesFile(d.template) /\ ~Unreadable(d.template)) =>
         (Ran("parse") /\ content = d.template)
    /\ Unreadable(d.template) =>
         (ErrorKind(err) = "ReadError" /\ trace = <<"resolve">> /\ rendered = <<>>)
    /\ (~NamesFile(d.template) /\ InvalidInline(d.template)) =>
         ErrorKind(err) \in {"ParseError", "ReadError"}

C6_Witness ==
  /\ Done
  /\ d.template = HelloFile
  /\ content = HelloContent
  /\ d.vars = SomeVars
  /\ rendered = <<"H", "e", "l", "l", "o", " ", "r", "o", "h", "i", "t", "h">>

\* The directory snippits names cannot be listed.
NoSuchDirectory == d.snippits # <<>> /\ ReadDir(d.snippits, dir).err # NoError

\* C7 as stated: when snippits names a directory that cannot be listed the
\* read fails with a DirectoryError and returns no text.
C7_DirectoryError ==
  (Done /\ NoSuchDirectory) => (ErrorKind(err) = "DirectoryError" /\ rendered = <<>>)

\* C7 amended: the same, when the template source has been read and parsed
\* (a source that fails first gives its ReadError or ParseError instead).
C7_DirectoryErrorAfterParse ==
  (Done /\ NoSuchDirectory
     /\ Read(d.template, dir).err = NoError
     /\ TemplateParse(NoTrees, MainName, Read(d.template, dir).content, Funcs).err = NoError)
    => (ErrorKind(err) = "DirectoryError" /\ rendered = <<>> /\ d.id = "")

C7_Witness ==
  /\ Done
  /\ d.template = <<"T", "h", "i", "s", " ", "i", "s", " ", "a", " ", "t", "e", "m", "p", "l", "a", "t", "e", "!">>
  /\ d.snippits = <<"/", "n", "o", "d", "i", "r">>
  /\ ErrorKind(err) = "DirectoryError"
  /\ trace = <<"resolve", "parse", "list">>

\* C8: a read with a snippits directory that exists and has no entries
\* returns what the read of the same template and vars without snippits
\* returns, text and error.
C8_EmptyDirectoryAsOmitted ==
  (Done /\ d.snippits # <<>>
     /\ ReadDir(d.snippits, dir).err = NoError
     /\ ReadDir(d.snippits, dir).names = <<>>)
    => [rendered |-> rendered, err |-> err] = renderGoTemplate(d.template, <<>>, d.vars, dir)

C8_Witness ==
  /\ Done
  /\ d.snippits = SnippitsDir
  /\ dir = {}
  /\ Ran("list")
  /\ rendered = <<"H", "e", "l", "l", "o", " ", "r", "o", "h", "i", "t", "h">>

\* The orders of a list.
Orders(s) ==
  { [i \in 1..Len(s) |-> s[p[i]]] :
      p \in {q \in [1..Len(s) -> 1..Len(s)] : \A i, j \in 1..Len(s) : q[i] = q[j] => i = j} }

\* The template the template source gives.
BaseTemplate == TemplateParse(NoTrees, MainName, content, Funcs).ns

\* What the read gives when the files are merged in the order of paths.
Outcome(paths) ==
  LET m == ParseFiles(BaseTemplate, paths, dir, Funcs)
      e == ExecuteTemplate(m.ns, MainName, d.vars)
  IN  IF m.err # NoError \/ e.err # NoError THEN [ok |-> FALSE, text |-> <<>>]
      ELSE [ok |-> TRUE, text |-> e.buf]

OrderFree == \A o \in Orders(files) : Outcome(o) = [ok |-> err = NoError, text |-> rendered]

BaseExecuted == Ran("execute") => tmpl[MainName] = BaseTemplate[MainName]

\* The templates an entry of the directory defines.
Defined(i) == Parse(SnippitFiles[i].name, SnippitFiles[i].content, Funcs).trees

\* Two entries give one name blank definitions that differ.
BlankClash ==
  \E i, j \in dir :
    /\ i # j
    /\ \E n \in DOMAIN Defined(i) \cap DOMAIN Defined(j) :
         /\ IsEmptyTree(Defined(i)[n])
         /\ IsEmptyTree(Defined(j)[n])
         /\ Defined(i)[n] # Defined(j)[n]

Stages == <<"resolve", "parse", "list", "snippets", "execute", "hash">>

Position(stage) == CHOOSE i \in 1..Len(Stages) : Stages[i] = stage

\* The stages in which a call fails.
StagesOf(op) ==
  IF op \in {"homedir.Expand"} THEN {"resolve"}
  ELSE IF op = "ReadFile" THEN {"resolve", "snippets"}
  ELSE IF op = "template.Parse" THEN {"parse", "snippets"}
  ELSE IF op = "ReadDir" THEN {"list"}
  ELSE IF op = "template.ParseFiles" THEN {"snippets"}
  ELSE {"execute"}

\* C10: the stages of a read run in the order resolve, parse, list,
\* snippets, execute, hash, none twice and none before the stages it
\* follows; the stage that fails is the last to run and its error is the
\* one returned, so that the earliest stage to fail decides the error; the
\* hash is computed only after an execute that succeeded.
C10_StageOrder ==
  /\ \A i, j \in 1..Len(trace) : i < j => Position(trace[i]) < Position(trace[j])
  /\ Ran("parse") => Ran("resolve")
  /\ Ran("list") => (Ran("parse") /\ d.snippits # <<>>)
  /\ Ran("snippets") => Ran("list")
  /\ Ran("execute") => (Ran("parse") /\ (d.snippits # <<>> => Ran("list")))
  /\ Ran("hash") => (Ran("execute") /\ err = NoError)
  /\ d.id # "" => Ran("hash")
  /\ err # NoError => (pc = "done" /\ trace[Len(trace)] \in StagesOf(err.op))
  /\ Done =>
       LET r == Read(d.template, dir)
           p == Parse(MainName, r.content, Funcs)
           l == ReadDir(d.snippits, dir)
       IN  /\ r.err # NoError => (err = r.err /\ trace = <<"resolve">>)
           /\ (r.err = NoError /\ p.msg # "") =>
                (err = Error("template.Parse", p.msg) /\ trace = <<"resolve", "parse">>)
           /\ (r.err = NoError /\ p.msg = "" /\ d.snippits # <<>> /\ l.err # NoError) =>
                (err = l.err /\ trace = <<"resolve", "parse", "list">>)

C10_Witness ==
  /\ Done
  /\ d.template = <<"/", "n", "o", "{", "{">>
  /\ d.snippits = <<"/", "n", "o", "d", "i", "r">>
  /\ ErrorKind(err) = "ParseError"
  /\ trace = <<"resolve", "parse">>
====
